---- MODULE Spec2Model ----
(***************************************************************************)
(* A model of sbom_generator.py: the mapping of vendor library records to  *)
(* SPDX packages (create_packages / create_package / get_author_from_cr),  *)
(* the assembly of a document with its relationships (create_sbom_doc),    *)
(* and the writing of the report files (write_report / write_file / main). *)
(*                                                                         *)
(* Python values: a str that may also be a marker object is wrapped by     *)
(* Str(..); the marker objects NoAssert() and SPDXNone() are records; None *)
(* is the string None; a list is a sequence; a dict is a function whose    *)
(* DOMAIN is its key set; a file name is a sequence of characters.         *)
(***************************************************************************)
EXTENDS Integers, Sequences, FiniteSets, TLC

VARIABLES
    pc,             \* the position of the run
    args_type,      \* args.type
    scopes,         \* the scopes main still has to report on (their names)
    scope_name,     \* scope_name of the document being produced
    due_dil,        \* due_dil of create_sbom_doc / create_packages
    libs,           \* libs_from_lic_report / libs
    packages,       \* doc.packages
    pkgs_spdx_ids,  \* pkgs_spdx_ids
    relationships,  \* doc.relationships
    log,            \* the warnings logged for the current document
    exc,            \* the exception that ended the run, "none" otherwise
    full_paths,     \* full_paths of write_report, file_paths of main
    fs,             \* the files of args.out_dir: path -> content
    written         \* history: every (path, content) a write_file completed

vars == <<pc, args_type, scopes, scope_name, due_dil, libs, packages,
          pkgs_spdx_ids, relationships, log, exc, full_paths, fs, written>>

----------------------------------------------------------------------------
(* Bounds of the checked input space *)

MaxDD == 2
MaxLics == 2
MaxCRs == 2
MaxLibs == 2
MaxScopes == 2

----------------------------------------------------------------------------
(* Python values *)

None == "<None>"
NoAssert == [kind |-> "NoAssert"]
SPDXNone == [kind |-> "SPDXNone"]
Str(s) == [kind |-> "str", value |-> s]
Organization(name, email) == [kind |-> "Organization", name |-> name, email |-> email]
License(full_name, identifier) ==
    [kind |-> "License", full_name |-> full_name, identifier |-> identifier]
Algorithm(identifier, value) == [identifier |-> identifier, value |-> value]

\* truth value of a str-or-None
Truthy(s) == s # None /\ s # ""

\* dict.get(key, default)
DictGet(d, key, default) == IF key \in DOMAIN d THEN d[key] ELSE default

\* str.rstrip('*')
RECURSIVE rstrip(_)
rstrip(s) ==
    IF s # <<>> /\ s[Len(s)] = "*" THEN rstrip(SubSeq(s, 1, Len(s) - 1)) ELSE s

\* a log record of logging.warning
Warning(msg, lib, n) == [msg |-> msg, lib |-> lib, n |-> n]

----------------------------------------------------------------------------
(* create_packages: the due-diligence index *)

StripLibrary(d) == [d EXCEPT !.library = rstrip(d.library)]

\* Lines 87-88: the loop strips every entry of due_dil in place
StripAll(dd) == [i \in 1..Len(dd) |-> StripLibrary(dd[i])]

\* ws_utilities.convert_dict_list_to_dict(lst, key_desc=('library','name')):
\* a dict keyed by (library, name); a later entry overwrites an earlier one.
RECURSIVE convert_dict_list_to_dict(_)
convert_dict_list_to_dict(lst) ==
    IF lst = <<>> THEN <<>>
    ELSE LET init == convert_dict_list_to_dict(SubSeq(lst, 1, Len(lst) - 1))
             d    == lst[Len(lst)]
             key  == <<d.library, d.name>>
         IN [k \in DOMAIN init \cup {key} |-> IF k = key THEN d ELSE init[k]]

----------------------------------------------------------------------------
(* get_author_from_cr *)

HasAuthor(a) == Truthy(DictGet(a, "author", None))

\* [a['author'] for a in copyright_references if a.get('author')]
RECURSIVE AuthorsOf(_)
AuthorsOf(copyright_references) ==
    IF copyright_references = <<>> THEN <<>>
    ELSE LET a == Head(copyright_references)
         IN (IF HasAuthor(a) THEN <<a.author>> ELSE <<>>)
            \o AuthorsOf(Tail(copyright_references))

\* authors.pop() removes and returns the LAST element of the list
ListPop(authors) == authors[Len(authors)]

get_author_from_cr(copyright_references) ==
    LET authors == AuthorsOf(copyright_references)
    IN [author |-> IF authors # <<>> THEN ListPop(authors) ELSE None,
        log    |-> IF Len(authors) > 1
                   THEN <<Warning("Found N authors on the lib. Will return the 1st", "", Len(authors))>>
                   ELSE IF authors = <<>>
                        THEN <<Warning("No author data found on lib", "", 0)>>
                        ELSE <<>>]

----------------------------------------------------------------------------
(* create_package *)

\* a package identifier built from the display name instead of the filename
PkgSpdxIdFromName(lib) == <<"SPDXRef-PACKAGE-", lib.name>>

\* f"SPDXRef-PACKAGE-{lib['filename']}"
PkgSpdxId(lib) == <<"SPDXRef-PACKAGE-">> \o lib.filename

\* dd_keys = [(lib.get('filename'), lic['name']) for lic in lib_licenses]
DDKeys(lib) == [i \in 1..Len(lib.licenses) |-> <<lib.filename, lib.licenses[i].name>>]

\* Lines 111-112: the author taken from dd_entities[0], the entry of the FIRST
\* license only.  exc is the exception the lookup raises, "none" otherwise;
\* bound tells whether the local variable author has been assigned.
AuthorFromDD(lib, dd_dict) ==
    LET dd_keys == DDKeys(lib)
    IN IF dd_keys = <<>>
       THEN [exc |-> "none", bound |-> FALSE, author |-> None]
       ELSE IF dd_keys[1] \notin DOMAIN dd_dict      \* dd_dict.get() gave None
            THEN [exc |-> "AttributeError", bound |-> FALSE, author |-> None]
            ELSE [exc |-> "none", bound |-> TRUE,
                  author |-> DictGet(dd_dict[dd_keys[1]], "author", None)]

\* Lines 108-119: the originator and the diagnostics of author resolution
ResolveAuthor(lib, dd_dict) ==
    LET dd == AuthorFromDD(lib, dd_dict)
        cr == get_author_from_cr(lib.copyrightReferences)
        author == IF Truthy(dd.author) THEN dd.author ELSE cr.author
        crlog  == IF Truthy(dd.author) THEN <<>> ELSE cr.log
    IN IF dd.exc # "none" THEN [exc |-> dd.exc, log |-> <<>>, originator |-> NoAssert]
       ELSE IF ~dd.bound    \* "if not author" reads the unassigned local
            THEN [exc |-> "UnboundLocalError", log |-> <<>>, originator |-> NoAssert]
            ELSE IF Truthy(author)
                 THEN [exc |-> "none", log |-> crlog,
                       originator |-> Organization(author, NoAssert)]
                 ELSE [exc |-> "none",
                       log |-> crlog \o <<Warning("Unable to find the author of library", lib.name, 0)>>,
                       originator |-> NoAssert]

\* Lines 121-124
ResolveCopyrights(lib) ==
    LET copyrights == [i \in 1..Len(lib.copyrightReferences) |->
                          DictGet(lib.copyrightReferences[i], "copyright", None)]
    IN IF copyrights = <<>>
       THEN [value |-> SPDXNone,
             log |-> <<Warning("No copyright info found for library", lib.name, 0)>>]
       ELSE [value |-> [kind |-> "list", items |-> copyrights], log |-> <<>>]

\* Lines 125-128: references is a dict; None and {} are both the empty dict
ResolveDownloadLocation(lib) ==
    LET references == lib.references
    IN [value |-> IF DOMAIN references # {}
                  THEN DictGet(references, "url", NoAssert)
                  ELSE NoAssert,
        log |-> IF DOMAIN references = {}
                THEN <<Warning("No references were found for library", lib.name, 0)>>
                ELSE <<>>]

\* Lines 142-150
ResolveLicenses(lib) ==
    LET licenses == [i \in 1..Len(lib.licenses) |->
                        License(DictGet(lib.licenses[i], "name", None),
                                DictGet(lib.licenses[i], "spdxName", None))]
    IN [licenses_from_files |-> licenses,
        license |-> IF licenses # <<>> THEN licenses[1] ELSE SPDXNone,
        log |-> (IF Len(licenses) > 1
                 THEN <<Warning("Library has N licenses. Using the 1st one", lib.name, Len(licenses))>>
                 ELSE <<>>)
                \o (IF licenses = <<>>
                    THEN <<Warning("No license found for library", lib.name, 0)>>
                    ELSE <<>>)]

create_package(lib, dd_dict) ==
    LET pkg_spdx_id == PkgSpdxId(lib)
        auth == ResolveAuthor(lib, dd_dict)
        cr   == ResolveCopyrights(lib)
        dl   == ResolveDownloadLocation(lib)
        lics == ResolveLicenses(lib)
    IN IF auth.exc # "none"
       THEN [exc |-> auth.exc, log |-> auth.log]
       ELSE [exc |-> "none",
             log |-> auth.log \o cr.log \o dl.log \o lics.log,
             pkg_spdx_id |-> pkg_spdx_id,
             package |->
               [name |-> lib.name,
                spdx_id |-> pkg_spdx_id,
                download_location |-> dl.value,
                version |-> DictGet(lib, "version", NoAssert),
                file_name |-> lib.filename,
                supplier |-> auth.originator,
                originator |-> auth.originator,
                files_analyzed |-> FALSE,
                homepage |-> dl.value,
                check_sum |-> Algorithm("SHA-1", lib.sha1),
                licenses_from_files |-> lics.licenses_from_files,
                conc_lics |-> lics.license,
                license_declared |-> lics.license,
                cr_text |-> cr.value]]

----------------------------------------------------------------------------
(* create_packages *)

\* Lines 93-96: the loop over libs; it stops at the first create_package
\* that raises.
RECURSIVE PackagesLoop(_, _, _)
PackagesLoop(ls, dd_dict, acc) ==
    IF ls = <<>> THEN acc
    ELSE LET r == create_package(Head(ls), dd_dict)
         IN IF r.exc # "none"
            THEN [acc EXCEPT !.exc = r.exc, !.log = acc.log \o r.log]
            ELSE PackagesLoop(Tail(ls), dd_dict,
                              [exc |-> "none",
                               packages |-> Append(acc.packages, r.package),
                               pkgs_spdx_ids |-> Append(acc.pkgs_spdx_ids, r.pkg_spdx_id),
                               log |-> acc.log \o r.log])

create_packages(ls, dd) ==
    LET stripped == StripAll(dd)
        dd_dict  == convert_dict_list_to_dict(stripped)
    IN PackagesLoop(ls, dd_dict,
                    [exc |-> "none", packages |-> <<>>, pkgs_spdx_ids |-> <<>>, log |-> <<>>])

----------------------------------------------------------------------------
(* create_document, the relationships of create_sbom_doc *)

doc_spdx_id == "SPDXRef-DOCUMENT"

\* f"WhiteSource {scope_name} SBOM report"
DocName(name) == <<"WhiteSource ">> \o name \o <<" SBOM report">>

\* str(doc.version) of version.Version(2, 2)
DocVersion == "Version(2, 2)"

\* Relationship(relationship=f"{pkg_id} {RelationshipType.DESCRIBED_BY.name} {doc_spdx_id}")
Relationship(pkg_id) == <<pkg_id, "DESCRIBED_BY", doc_spdx_id>>

\* the relationships prepended instead of appended: package order reversed
RelationshipsReversed(ids) == [i \in 1..Len(ids) |-> Relationship(ids[Len(ids) + 1 - i])]

\* Lines 47-48
Relationships(ids) == [i \in 1..Len(ids) |-> Relationship(ids[i])]

----------------------------------------------------------------------------
(* SPDXFileType, replace_invalid_chars, write_report, write_file *)

\* the members of the Enum, in definition order: (suffix, module, flags, encoding)
MemberNames == <<"TV", "RDF", "XML">>

SPDXFileType ==
    [TV  |-> [suffix |-> "tv",  module_classpath |-> "spdx.writers.tagvalue",
              f_flags |-> "w",  encoding |-> "utf-8"],
     RDF |-> [suffix |-> "xml", module_classpath |-> "spdx.writers.rdf",
              f_flags |-> "wb", encoding |-> None],
     XML |-> [suffix |-> "xml", module_classpath |-> "spdx.writers.xml",
              f_flags |-> "wb", encoding |-> None]]

\* str.lower() / str.upper() on the format tags
Lower == [TV |-> "tv", RDF |-> "rdf", XML |-> "xml"]
Upper == [tv |-> "TV", rdf |-> "RDF", xml |-> "XML"]

\* the choices of --type
TypeChoices == {Lower[m] : m \in DOMAIN Lower} \cup {"all"}

\* cls.__dict__[f_t.upper()]
get_file_type(f_t) == SPDXFileType[Upper[f_t]]

\* ws_constants.INVALID_FS_CHARS
INVALID_FS_CHARS == {":", "*", "\\", "<", ">", "/", "\"", "?", "|"}

replace_invalid_chars(filename) ==
    [i \in 1..Len(filename) |->
        IF filename[i] \in INVALID_FS_CHARS THEN "_" ELSE filename[i]]

\* Line 212
FTypes(file_type) ==
    IF file_type = "all" THEN [i \in 1..Len(MemberNames) |-> Lower[MemberNames[i]]]
    ELSE <<file_type>>

\* Lines 225-226: os.path.join(args.out_dir, replace_invalid_chars(...))
FullPath(name, file_type) ==
    <<"<out_dir>/">>
    \o replace_invalid_chars(DocName(name) \o <<"-", DocVersion, ".", get_file_type(file_type).suffix>>)

\* what write_document leaves in the file when it completes
Content(name, file_type) ==
    [doc |-> DocName(name), writer |-> get_file_type(file_type).module_classpath,
     complete |-> TRUE]

\* open(full_path, mode="w"/"wb") creates or truncates the file
Truncated(name, file_type) == [Content(name, file_type) EXCEPT !.complete = FALSE]

FsPut(files, path, c) ==
    [q \in DOMAIN files \cup {path} |-> IF q = path THEN c ELSE files[q]]

----------------------------------------------------------------------------
(* The inputs: what the vendor API and the command line supply *)

SeqsUpTo(S, n) == UNION {[1..k -> S] : k \in 0..n}

LicenseEntries ==
    {[name |-> "MIT", spdxName |-> "MIT"],
     [name |-> "Apache-2.0", spdxName |-> "Apache-2.0"]}

CopyrightEntries ==
    {[copyright |-> "(c) 1"],
     [copyright |-> "(c) A", author |-> "Alice"],
     [copyright |-> "(c) B", author |-> "Bob"]}

ReferenceSets ==
    {<<>>,
     [homePage |-> Str("http://home")],
     [url |-> Str("http://url"), homePage |-> Str("http://home")]}

DueDilEntries ==
    [library : {<<"f">>, <<"f", "*">>, <<"g">>},
     name : {"MIT", "Apache-2.0"},
     author : {"", "Acme Corp"}]

Lib(filename, licenses, crs, refs) ==
    [name |-> "foo", filename |-> filename, version |-> Str("1.0"), sha1 |-> "abc123",
     licenses |-> licenses, copyrightReferences |-> crs, references |-> refs]

\* the library records of the package-mapping specification
RichLibs ==
    {Lib(<<"f">>, ls, cs, rs) : ls \in SeqsUpTo(LicenseEntries, MaxLics),
                               cs \in SeqsUpTo(CopyrightEntries, MaxCRs),
                               rs \in ReferenceSets}

\* the library records and due-diligence reports of the whole-run specification
SimpleLibs ==
    {Lib(fn, <<[name |-> "MIT", spdxName |-> "MIT"]>>,
         <<[copyright |-> "(c) A", author |-> "Alice"]>>,
         [url |-> Str("http://url")]) : fn \in {<<"f">>, <<"g">>}}
    \cup
    {Lib(<<"g">>, <<[name |-> "MIT", spdxName |-> "MIT"],
                   [name |-> "Apache-2.0", spdxName |-> "Apache-2.0"]>>,
         <<>>, <<>>)}

ApiLibs == SeqsUpTo(SimpleLibs, MaxLibs)

ApiDueDil ==
    {<<>>,
     <<[library |-> <<"f", "*">>, name |-> "MIT", author |-> "Acme Corp"],
       [library |-> <<"g">>, name |-> "MIT", author |-> ""]>>}

ScopeNames == {<<"p">>, <<"q", "/">>, <<"q", "_">>}

----------------------------------------------------------------------------
(* The run of main *)

Init ==
    /\ pc = "main"
    /\ args_type = "tv"
    /\ scopes = <<>>
    /\ scope_name = <<>>
    /\ due_dil = <<>>
    /\ libs = <<>>
    /\ packages = <<>>
    /\ pkgs_spdx_ids = <<>>
    /\ relationships = <<>>
    /\ log = <<>>
    /\ exc = "none"
    /\ full_paths = <<>>
    /\ fs = <<>>
    /\ written = <<>>

\* Lines 266-274: parse_args, init, and the choice of the scopes to report on:
\* the one scope of --scope, or all projects of the organization.
Main ==
    /\ pc = "main"
    /\ \E t \in TypeChoices : args_type' = t
    /\ \/ \E n \in ScopeNames : scopes' = <<n>>
       \/ \E ps \in SeqsUpTo(ScopeNames, MaxScopes) : scopes' = ps
    /\ pc' = "scope_loop"
    /\ UNCHANGED <<scope_name, due_dil, libs, packages, pkgs_spdx_ids,
                   relationships, log, exc, full_paths, fs, written>>

\* Lines 31-48: create_sbom_doc up to the call of write_report
CreateSbomDoc ==
    /\ pc = "scope_loop"
    /\ scopes # <<>>
    /\ scope_name' = Head(scopes)
    /\ \E dd \in ApiDueDil, ls \in ApiLibs :
         LET r == create_packages(ls, dd)
         IN /\ due_dil' = StripAll(dd)
            /\ libs' = ls
            /\ log' = r.log
            /\ IF r.exc # "none"
               THEN /\ exc' = r.exc
                    /\ pc' = "raised"
                    /\ UNCHANGED <<packages, pkgs_spdx_ids, relationships>>
               ELSE /\ packages' = r.packages
                    /\ pkgs_spdx_ids' = r.pkgs_spdx_ids
                    /\ relationships' = Relationships(r.pkgs_spdx_ids)
                    /\ pc' = "write_report"
                    /\ UNCHANGED exc
    /\ full_paths' = <<>>
    /\ UNCHANGED <<args_type, scopes, fs, written>>

\* Lines 215-217 and 222-232: one iteration of the loop of write_report, the
\* whole of write_file.  The open or the writer may fail; a failure after
\* open() leaves the truncated file.
WriteFile ==
    /\ pc = "write_report"
    /\ Len(full_paths) < Len(FTypes(args_type))
    /\ LET f_type == FTypes(args_type)[Len(full_paths) + 1]
           full_path == FullPath(scope_name, f_type)
       IN \/ /\ fs' = FsPut(fs, full_path, Content(scope_name, f_type))
             /\ full_paths' = Append(full_paths, full_path)
             /\ written' = Append(written, [path |-> full_path,
                                            content |-> Content(scope_name, f_type)])
             /\ UNCHANGED <<pc, exc>>
          \/ /\ exc' = "OSError"               \* open() raises
             /\ pc' = "raised"
             /\ UNCHANGED <<fs, full_paths, written>>
          \/ /\ fs' = FsPut(fs, full_path, Truncated(scope_name, f_type))
             /\ exc' = "WriteError"            \* write_document raises
             /\ pc' = "raised"
             /\ UNCHANGED <<full_paths, written>>
    /\ UNCHANGED <<args_type, scopes, scope_name, due_dil, libs, packages,
                   pkgs_spdx_ids, relationships, log>>

\* Lines 219, 50-53, 275-276: write_report and create_sbom_doc return; the
\* document goes out of scope and main moves to the next scope.
FinishReport ==
    /\ pc = "write_report"
    /\ Len(full_paths) = Len(FTypes(args_type))
    /\ scopes' = Tail(scopes)
    /\ pc' = "scope_loop"
    /\ due_dil' = <<>>
    /\ libs' = <<>>
    /\ packages' = <<>>
    /\ pkgs_spdx_ids' = <<>>
    /\ relationships' = <<>>
    /\ log' = <<>>
    /\ UNCHANGED <<args_type, scope_name, exc, full_paths, fs, written>>

\* Line 278: return file_paths, unassigned when no scope was processed
MainReturn ==
    /\ pc = "scope_loop"
    /\ scopes = <<>>
    /\ IF full_paths = <<>>
       THEN exc' = "UnboundLocalError" /\ pc' = "raised"
       ELSE pc' = "done" /\ UNCHANGED exc
    /\ UNCHANGED <<args_type, scopes, scope_name, due_dil, libs, packages,
                   pkgs_spdx_ids, relationships, log, full_paths, fs, written>>

Next == Main \/ CreateSbomDoc \/ WriteFile \/ FinishReport \/ MainReturn

Spec == Init /\ [][Next]_vars

----------------------------------------------------------------------------
(* The package mapping on its own: create_packages applied to one library   *)
(* record and a due-diligence report drawn from the bounded input sets.     *)

InitPkg ==
    /\ pc = "create_packages"
    /\ args_type = "tv"
    /\ scopes = <<>>
    /\ scope_name = <<"p">>
    /\ due_dil \in SeqsUpTo(DueDilEntries, MaxDD)
    /\ libs \in {<<l>> : l \in RichLibs}
    /\ packages = <<>>
    /\ pkgs_spdx_ids = <<>>
    /\ relationships = <<>>
    /\ log = <<>>
    /\ exc = "none"
    /\ full_paths = <<>>
    /\ fs = <<>>
    /\ written = <<>>

\* Lines 85-99
CreatePackages ==
    /\ pc = "create_packages"
    /\ LET r == create_packages(libs, due_dil)
       IN /\ due_dil' = StripAll(due_dil)
          /\ log' = r.log
          /\ exc' = r.exc
          /\ IF r.exc # "none"
             THEN pc' = "raised" /\ UNCHANGED <<packages, pkgs_spdx_ids>>
             ELSE /\ pc' = "packages_done"
                  /\ packages' = r.packages
                  /\ pkgs_spdx_ids' = r.pkgs_spdx_ids
    /\ UNCHANGED <<args_type, scopes, scope_name, libs, relationships,
                   full_paths, fs, written>>

NextPkg == CreatePackages

SpecPkg == InitPkg /\ [][NextPkg]_vars

----------------------------------------------------------------------------
(* Properties of the package mapping, stated over SpecPkg: libs holds the   *)
(* one library record, due_dil the report, and create_packages has run.     *)

Mapped == pc \in {"packages_done", "raised"}
Returned == pc = "packages_done" /\ exc = "none" /\ Len(packages) = 1
TheLib == libs[1]
ThePkg == packages[1]
Logged(msg) == \E i \in 1..Len(log) : log[i].msg = msg

\* the due-diligence entries that match one of the library's licenses
MatchingDD ==
    {d \in {due_dil[j] : j \in 1..Len(due_dil)} :
        /\ rstrip(d.library) = TheLib.filename
        /\ \E i \in 1..Len(TheLib.licenses) : TheLib.licenses[i].name = d.name}

DDAuthors == {d.author : d \in {m \in MatchingDD : Truthy(m.author)}}
CRAuthors == AuthorsOf(TheLib.copyrightReferences)

\* C1: a library record with no license entry is mapped without an exception
\* to a package whose declared and concluded license are the "none" marker,
\* and the 'no license found' diagnostic is logged.
C1_NoLicenseGivesNone ==
    (Mapped /\ TheLib.licenses = <<>>) =>
        /\ Returned
        /\ ThePkg.license_declared = SPDXNone
        /\ ThePkg.conc_lics = SPDXNone
        /\ Logged("No license found for library")

\* C2: a library record with N > 1 license entries is mapped to a package
\* whose declared and concluded license are the license built from the first
\* entry, whose licenses_from_files has the N licenses in input order, and
\* the multi-license diagnostic is logged.
C2_FirstOfSeveralLicenses ==
    (Mapped /\ Len(TheLib.licenses) > 1) =>
        /\ Returned
        /\ ThePkg.license_declared
             = License(TheLib.licenses[1].name, TheLib.licenses[1].spdxName)
        /\ ThePkg.conc_lics = ThePkg.license_declared
        /\ Len(ThePkg.licenses_from_files) = Len(TheLib.licenses)
        /\ \A i \in 1..Len(TheLib.licenses) :
             ThePkg.licenses_from_files[i]
               = License(TheLib.licenses[i].name, TheLib.licenses[i].spdxName)
        /\ Logged("Library has N licenses. Using the 1st one")

\* C3: when some (filename, license name) key of the library matches a
\* due-diligence entry with a non-empty author, at whatever position of the
\* license list, the originator is the organization of that author.
C3_DueDiligenceAuthorWins ==
    (Mapped /\ DDAuthors # {}) =>
        /\ Returned
        /\ ThePkg.originator.kind = "Organization"
        /\ ThePkg.originator.name \in DDAuthors

\* C4: without a due-diligence author and with k >= 1 copyright entries
\* that name an author, the originator is the organization of the FIRST
\* such author in input order.
C4_FirstCopyrightAuthor ==
    (Mapped /\ DDAuthors = {} /\ CRAuthors # <<>>) =>
        /\ Returned
        /\ ThePkg.originator = Organization(CRAuthors[1], NoAssert)

\* C5: with neither a due-diligence author nor a copyright author, author
\* resolution does not raise: the originator is "no assertion" and the
\* 'unable to find the author' diagnostic is logged.
C5_NoAuthorGivesNoAssert ==
    (Mapped /\ DDAuthors = {} /\ CRAuthors = <<>>) =>
        /\ Returned
        /\ ThePkg.originator = NoAssert
        /\ Logged("Unable to find the author of library")

\* C8: every returned package carries a value or a marker in each optional
\* field (copyright text, download location = homepage, originator,
\* files_analyzed = false), and a diagnostic is logged for each marker that
\* was substituted.
C8_MarkersWithDiagnostics ==
    Returned =>
        /\ (TheLib.copyrightReferences = <<>> =>
              /\ ThePkg.cr_text = SPDXNone
              /\ Logged("No copyright info found for library"))
        /\ ThePkg.download_location = ThePkg.homepage
        /\ ("url" \in DOMAIN TheLib.references =>
              ThePkg.download_location = TheLib.references.url)
        /\ ("url" \notin DOMAIN TheLib.references =>
              /\ ThePkg.download_location = NoAssert
              /\ Logged("No references were found for library"))
        /\ ThePkg.originator.kind \in {"Organization", "NoAssert"}
        /\ (ThePkg.originator = NoAssert =>
              Logged("Unable to find the author of library"))
        /\ ThePkg.files_analyzed = FALSE

----------------------------------------------------------------------------
(* Properties of the assembled document and of the report files, stated     *)
(* over Spec.                                                               *)

Assembled == pc = "write_report"

\* C6 as stated: in every assembled document the package identifiers are
\* pairwise distinct, each being SPDXRef-PACKAGE-<filename of its library>.
C6_IdsPairwiseDistinct ==
    Assembled =>
        /\ Len(packages) = Len(libs)
        /\ \A i \in 1..Len(packages) :
             packages[i].spdx_id = <<"SPDXRef-PACKAGE-">> \o libs[i].filename
        /\ \A i, j \in 1..Len(packages) :
             i # j => packages[i].spdx_id # packages[j].spdx_id

\* C6 as amended: each package identifier is SPDXRef-PACKAGE-<filename of its
\* library>, so two packages of a document have the same identifier exactly
\* when their libraries have the same filename.
C6_IdsFollowFilenames ==
    Assembled =>
        /\ Len(packages) = Len(libs)
        /\ Len(pkgs_spdx_ids) = Len(libs)
        /\ \A i \in 1..Len(packages) :
             /\ packages[i].spdx_id = <<"SPDXRef-PACKAGE-">> \o libs[i].filename
             /\ pkgs_spdx_ids[i] = packages[i].spdx_id
        /\ \A i, j \in 1..Len(packages) :
             (packages[i].spdx_id = packages[j].spdx_id)
               <=> (libs[i].filename = libs[j].filename)

C6_Witness ==
    /\ Assembled
    /\ Len(packages) = 2
    /\ libs[1].filename # libs[2].filename
    /\ packages[1].spdx_id # packages[2].spdx_id

\* the relationships whose subject is the identifier of package i
RelationshipsOf(i) ==
    {j \in 1..Len(relationships) : relationships[j][1] = packages[i].spdx_id}

\* C7 as stated: a document of n library records has n relationships, the
\* i-th being <id of package i> DESCRIBED_BY SPDXRef-DOCUMENT, and every
\* package is the subject of exactly one relationship.
C7_OneRelationshipPerPackage ==
    Assembled =>
        /\ Len(relationships) = Len(libs)
        /\ \A i \in 1..Len(relationships) :
             relationships[i] = <<packages[i].spdx_id, "DESCRIBED_BY", "SPDXRef-DOCUMENT">>
        /\ \A i \in 1..Len(packages) : Cardinality(RelationshipsOf(i)) = 1

\* C7 as amended: n relationships, the i-th being <id of package i>
\* DESCRIBED_BY SPDXRef-DOCUMENT; a package is the subject of as many
\* relationships as there are library records with its filename, which is
\* exactly one when the filename occurs once in the input.
C7_RelationshipsMirrorPackages ==
    Assembled =>
        /\ Len(relationships) = Len(libs)
        /\ Len(packages) = Len(libs)
        /\ \A i \in 1..Len(relationships) :
             relationships[i] = <<packages[i].spdx_id, "DESCRIBED_BY", "SPDXRef-DOCUMENT">>
        /\ \A i \in 1..Len(packages) :
             Cardinality(RelationshipsOf(i))
               = Cardinality({j \in 1..Len(libs) : libs[j].filename = libs[i].filename})

C7_Witness ==
    /\ Assembled
    /\ Len(relationships) = 2
    /\ relationships[1] # relationships[2]
    /\ Cardinality(RelationshipsOf(1)) = 1

Suffix(path) == path[Len(path)]
BaseName(path) == SubSeq(path, 1, Len(path) - 1)

\* C9: output type "all" writes three files and returns exactly three paths
\* that share the base name and have pairwise distinct suffixes, so no
\* format's file overwrites another's.
C9_AllWritesThreeDistinctPaths ==
    (Assembled /\ args_type = "all" /\ Len(full_paths) = Len(FTypes("all"))) =>
        /\ Len(full_paths) = 3
        /\ \A i, j \in 1..3 :
             /\ BaseName(full_paths[i]) = BaseName(full_paths[j])
             /\ (i # j => Suffix(full_paths[i]) # Suffix(full_paths[j]))
             /\ (i # j => full_paths[i] # full_paths[j])

\* C10: when the write of a format fails, the failure propagates and the
\* files already written, for the earlier formats of this document and for
\* the earlier scopes, are left in place as they were written.
C10_EarlierFilesLeftInPlace ==
    (pc = "raised" /\ exc \in {"OSError", "WriteError"}) =>
        \A i \in 1..Len(written) :
            /\ written[i].path \in DOMAIN fs
            /\ fs[written[i].path] = written[i].content

====
